---- MODULE Spec2Model ----
(***************************************************************************)
(* Conditional-request validation: the content generator of                *)
(* validation_webserver.go (handle) and the scenario harness of            *)
(* validserver_test.go (DoValidationTest with its validators and updaters,*)
(* TestStaticDoc, TestBasicMissingDoc).  Five specifications: Spec (one    *)
(* test function against the server), ServerSpec (one request), ClockSpec  *)
(* (the content date), PairSpec (two test functions in parallel) and       *)
(* WriterSpec (the ByteWriter of one response).                            *)
(*                                                                         *)
(* Time is counted in whole seconds.  Strings are TLA+ strings, built with *)
(* \o exactly as the Go code formats them; a body is the sequence of its   *)
(* newline-terminated lines.                                               *)
(***************************************************************************)
EXTENDS Integers, Sequences, FiniteSets, TLC

VARIABLES
    clock,      \* wall clock: seconds elapsed since the top of Epoch's hour
    request,    \* the request most recently put to the server (or NoRequest)
    response,   \* the server's answer to it (or NoResponse while unanswered)
    servedAt,   \* the clock reading at which handle served it
    scenario,   \* the test function and its arguments: path, validator v, updater u
    pc,         \* position of the scenario inside its test function
    resp,       \* DoValidationTest: the baseline response (TestStaticDoc: resp1)
    body,       \* DoValidationTest: the baseline body (TestStaticDoc: content1)
    modded,     \* DoValidationTest: the validator's "modified" request
    same,       \* DoValidationTest: the validator's "same" request
    sresp,      \* response to "same" in the first round (TestStaticDoc: resp2)
    mresp,      \* DoValidationTest: response to "modded" in the second round
    i,          \* PeriodicU.Update: loop counter
    log,        \* what the scenario did so far: requests with their status
    vclock,     \* the content-date computation on its own: inputs and results
    bw,         \* handle's ByteWriter, with the Write calls still to come
    sib         \* the test function running in parallel with this one, if any

vars == <<clock, request, response, servedAt, scenario, pc, resp, body,
          modded, same, sresp, mresp, i, log, vclock, bw, sib>>

-----------------------------------------------------------------------------
(* Bounds of the model.                                                    *)

\* first clock reading of a run (second 40 of the minute: buckets 30, 45, 0)
ClockStart == 40
\* last clock reading: one minute rollover and two more bucket rollovers
MaxClock == 76
\* how many seconds before MaxClock two parallel tests start
PairSpan == 2
\* the longest header value a request is sent with: one byte more than fits
\* the ByteWriter when it is the value of a lone If-Match header
MaxValueLen == 3974
\* how many seconds late a one-second time.Sleep may return
MaxOversleep == 1
\* the largest granularity the content-date computation is tried with
MaxGranularity == 16

(* Program constants.                                                      *)
granularity_in_seconds == 15

\* make([]byte, 4096): the capacity of a ByteWriter
BufSize == 4096

\* the date and hour the model's clock runs in (time.Now().UTC())
Epoch == [year |-> 2026, month |-> 11, day |-> 2, hour |-> 10]

-----------------------------------------------------------------------------
(* time.Time, as the fields handle reads and formats.                      *)

UTC(c) == [year   |-> Epoch.year, month |-> Epoch.month, day |-> Epoch.day,
           hour   |-> Epoch.hour + (c \div 3600),
           minute |-> (c \div 60) % 60,
           second |-> c % 60]

\* the instant c in seconds since 1970-01-01 00:00:00 UTC (time.Time.Unix):
\* 20759 days lie before Epoch's date
Unix(c) == (20759 * 86400) + (Epoch.hour * 3600) + c

\* time.Time.Before, field by field
Before(a, b) ==
    LET ka == <<a.year, a.month, a.day, a.hour, a.minute, a.second>>
        kb == <<b.year, b.month, b.day, b.hour, b.minute, b.second>>
    IN  \E k \in 1..6 : /\ ka[k] < kb[k]
                        /\ \A j \in 1..(k-1) : ka[j] = kb[j]

Digit(n) ==
    CASE n = 0 -> "0" [] n = 1 -> "1" [] n = 2 -> "2" [] n = 3 -> "3"
      [] n = 4 -> "4" [] n = 5 -> "5" [] n = 6 -> "6" [] n = 7 -> "7"
      [] n = 8 -> "8" [] n = 9 -> "9"

\* Itoa for non-negative numbers
RECURSIVE Itoa(_)
Itoa(n) == IF n < 10 THEN Digit(n) ELSE Itoa(n \div 10) \o Digit(n % 10)

\* zero-padded fields of a time layout: "02", "15", "04", "05" and "2006"
D2(n) == Digit((n \div 10) % 10) \o Digit(n % 10)
D4(n) == D2(n \div 100) \o D2(n % 100)

\* layout element "Jan"
MonthName(m) ==
    <<"Jan", "Feb", "Mar", "Apr", "May", "Jun",
      "Jul", "Aug", "Sep", "Oct", "Nov", "Dec">>[m]

\* layout element "Mon": the day of the week of a civil date
Weekday(t) ==
    LET off == <<0, 3, 2, 5, 0, 3, 5, 1, 4, 6, 2, 4>>
        y   == IF t.month < 3 THEN t.year - 1 ELSE t.year
        w   == (y + (y \div 4) - (y \div 100) + (y \div 400)
                  + off[t.month] + t.day) % 7
    IN  <<"Sun", "Mon", "Tue", "Wed", "Thu", "Fri", "Sat">>[w + 1]

HMS(t) == D2(t.hour) \o ":" \o D2(t.minute) \o ":" \o D2(t.second)

\* t.Format(time.RFC1123Z) = "Mon, 02 Jan 2006 15:04:05 -0700", t in UTC
FormatRFC1123Z(t) ==
    Weekday(t) \o ", " \o D2(t.day) \o " " \o MonthName(t.month) \o " "
        \o D4(t.year) \o " " \o HMS(t) \o " +0000"

\* t.Format("2006-01-02,15:04:05")
FormatETag(t) ==
    D4(t.year) \o "-" \o D2(t.month) \o "-" \o D2(t.day) \o "," \o HMS(t)

-----------------------------------------------------------------------------
(* net/http headers and paths.                                             *)

\* textproto.CanonicalMIMEHeaderKey on the keys this program uses: the first
\* letter and every letter after a hyphen upper case, the rest lower case
CanonicalKey(k) ==
    CASE k = "ETag" -> "Etag"
      [] k = "etag" -> "Etag"
      [] OTHER -> k

EmptyHeader == [k \in {} |-> ""]

\* http.Header.Get: "" when the key is absent
HeaderGet(h, k) ==
    IF CanonicalKey(k) \in DOMAIN h THEN h[CanonicalKey(k)] ELSE ""

\* http.Header.Set and, on a key not yet present, http.Header.Add
HeaderSet(h, k, v) ==
    [x \in DOMAIN h \cup {CanonicalKey(k)} |->
        IF x = CanonicalKey(k) THEN v ELSE h[x]]

\* strings.Index(r.URL.Path, "/seg/") != -1, a path being its segments
PathHas(path, seg) == \E n \in 1..Len(path) : path[n] = seg

-----------------------------------------------------------------------------
(* handle: the content generator.                                          *)

help_text ==
    <<"",
      "USAGE: You can go to any URL and get some basic content.",
      "",
      "If the following components are present in the path URL, then you will",
      "get some additional behaviour:",
      "  /datemod/ -> Sets a Date-Modified header and performs date resource validation.",
      "  /etag/ -> Sets an E-Tag header and performs E-Tag resource validation.",
      "  /headers/ -> Includes the request headers in the content response.",
      "  /static/ -> Uses a fixed timestamp rather than an updating one.",
      "  ",
      "You can combine the path components too:",
      "  /resource/headers/static/blahblah/etag/anythingyoulike/">>

\* len of a body: every line and its newline
RECURSIVE ContentLen(_)
ContentLen(lines) ==
    IF lines = <<>> THEN 0
    ELSE Len(Head(lines)) + 1 + ContentLen(Tail(lines))

\* Truncate keeping the remainder where the quotient was meant
Truncate_Remainder(sec, g) == sec % g

\* seconds := (now.Second() / granularity) * granularity
Truncate(sec, g) == (sec \div g) * g

\* Bucket losing the minute of now
Bucket_DropMinute(now, g) ==
    [now EXCEPT !.second = Truncate(now.second, g), !.minute = 0]

\* time.Date(now.Year(), ..., now.Minute(), seconds, 0, now.Location()) for a
\* granularity g: the seconds of the minute truncated, the larger fields kept
Bucket(now, g) == [now EXCEPT !.second = Truncate(now.second, g)]

\* Then with the static date forgotten
Then_NoStatic(path, now) == Bucket(now, granularity_in_seconds)

\* then: the content date of a path at the instant now
Then(path, now) ==
    IF PathHas(path, "static")
    THEN [year |-> 2012, month |-> 12, day |-> 20,
          hour |-> 20, minute |-> 12, second |-> 12]
    ELSE Bucket(now, granularity_in_seconds)

\* etag_enc
ETagEnc(then) == "\"" \o FormatETag(then) \o "\""

\* http.Error(w, message, code); a 304 carries no body on the wire
ErrorResponse(code, message) ==
    [code   |-> code,
     header |-> HeaderSet(HeaderSet(EmptyHeader,
                    "Content-Type", "text/plain; charset=utf-8"),
                    "X-Content-Type-Options", "nosniff"),
     body   |-> IF code = 304 THEN <<>> ELSE <<message>>]

\* IfMatchFails with the comparison the wrong way round
IfMatchFails_Inverted(etag_enc, etag_if_match) ==
    /\ Len(etag_if_match) > 0
    /\ (etag_enc = "\"*\"" \/ etag_enc = etag_if_match)

\* the If-Match test of handle
IfMatchFails(etag_enc, etag_if_match) ==
    /\ Len(etag_if_match) > 0
    /\ ~(etag_enc = "\"*\"" \/ etag_enc = etag_if_match)

\* the If-None-Match test of handle
IfNoneMatchHits(etag_enc, etag_if_none_match) ==
    /\ Len(etag_if_none_match) > 0
    /\ (etag_enc = "\"*\"" \/ etag_enc = etag_if_none_match)

\* the If-Unmodified-Since test of handle
UnmodSinceFails(then_header, unmod_since) ==
    Len(unmod_since) > 0 /\ unmod_since # then_header

\* ModSinceHits answering 304 on the equal date instead of the different one
ModSinceHits_OnEqual(then_header, mod_since) ==
    Len(mod_since) > 0 /\ mod_since = then_header

\* the If-Modified-Since test of handle
ModSinceHits(then_header, mod_since) ==
    Len(mod_since) > 0 /\ mod_since # then_header

\* the request headers echoed on a /headers/ path, keys in sort.Strings order
HeaderOrder ==
    <<"If-Match", "If-Modified-Since", "If-None-Match", "If-Unmodified-Since">>

RECURSIVE EchoHeaders(_, _)
EchoHeaders(h, keys) ==
    IF keys = <<>> THEN <<>>
    ELSE (IF Head(keys) \in DOMAIN h
          THEN <<"  " \o Head(keys) \o ": " \o h[Head(keys)]>>
          ELSE <<>>) \o EchoHeaders(h, Tail(keys))

\* Content without the line that tells when the response was generated
Content_NoGenerated(r, then_header, now_header) ==
    <<"Content date: " \o then_header>>
        \o (IF PathHas(r.path, "headers")
            THEN <<"", "REQUEST HEADERS:">> \o EchoHeaders(r.header, HeaderOrder)
            ELSE <<>>)

\* the buffered content of a 200 response
Content(r, then_header, now_header) ==
    <<"Content date: " \o then_header, "Generated:    " \o now_header>>
        \o (IF PathHas(r.path, "headers")
            THEN <<"", "REQUEST HEADERS:">> \o EchoHeaders(r.header, HeaderOrder)
            ELSE <<>>)

\* Buffy(): make([]byte, 4096), pos = 0; the contents are kept as the lines
\* written so far
Buffy == [buf |-> <<>>, pos |-> 0]

\* ByteWriter.Write: n = len(bs), then copy(s.buf[s.pos:s.pos+n], bs), whose
\* slice expression panics when s.pos+n exceeds the capacity of buf
Write(s, bs) ==
    IF s.pos + ContentLen(bs) > BufSize
    THEN [panicked |-> TRUE, n |-> ContentLen(bs), s |-> s]
    ELSE [panicked |-> FALSE, n |-> ContentLen(bs),
          s |-> [buf |-> s.buf \o bs, pos |-> s.pos + ContentLen(bs)]]

\* ByteWriter.AsString: string(b.buf[0:b.pos])
AsString(s) == s.buf

\* the byte slices fmt.Fprintln and fmt.Fprintf hand to b.Write, one per call
Writes(r, then_header, now_header) ==
    <<<<"Content date: " \o then_header>>, <<"Generated:    " \o now_header>>>>
        \o (IF PathHas(r.path, "headers")
            THEN <<<<"", "REQUEST HEADERS:">>>>
                    \o [k \in 1..Len(EchoHeaders(r.header, HeaderOrder)) |->
                            <<EchoHeaders(r.header, HeaderOrder)[k]>>]
            ELSE <<>>)

\* what the client is left with when handle panics: net/http recovers the
\* panic and closes the connection without a response
ConnectionClosed == [code |-> 0, header |-> EmptyHeader, body |-> <<"EOF">>]

\* lines 177-186: the custom headers copied, Content-Length set, content sent
Respond200(headers, content) ==
    LET ctype == HeaderSet(EmptyHeader, "Content-Type", "text/plain; charset=utf-8")
        copied == [k \in DOMAIN ctype \cup DOMAIN headers |->
                      IF k \in DOMAIN headers THEN headers[k] ELSE ctype[k]]
    IN  [code   |-> 200,
         header |-> HeaderSet(copied, "Content-Length", Itoa(ContentLen(content))),
         body   |-> content]

\* the response-writing part of handle, once no precondition has answered
Full(r, headers, then_header, now_header) ==
    LET ctype == HeaderSet(EmptyHeader, "Content-Type", "text/plain; charset=utf-8")
    IN  IF r.path = <<>>
        THEN [code   |-> 200,
              header |-> HeaderSet(ctype, "Content-Length", Itoa(ContentLen(help_text))),
              body   |-> help_text]
        ELSE IF ContentLen(Content(r, then_header, now_header)) > BufSize
        THEN ConnectionClosed
        ELSE Respond200(headers, Content(r, then_header, now_header))

\* the last-modified part of handle and what follows it
LastModCheck(r, headers, then_header, now_header) ==
    IF PathHas(r.path, "lastmod")
    THEN IF UnmodSinceFails(then_header, HeaderGet(r.header, "If-Unmodified-Since"))
         THEN ErrorResponse(412, "Document has been modified")
         ELSE IF ModSinceHits(then_header, HeaderGet(r.header, "If-Modified-Since"))
         THEN ErrorResponse(304, "Document has not been modified")
         ELSE Full(r, HeaderSet(headers, "Last-Modified", then_header),
                   then_header, now_header)
    ELSE Full(r, headers, then_header, now_header)

\* ETagCheck with the If-None-Match test before the If-Match test
ETagCheck_NoneMatchFirst(r, then, then_header, now_header) ==
    IF PathHas(r.path, "etag")
    THEN IF IfNoneMatchHits(ETagEnc(then), HeaderGet(r.header, "If-None-Match"))
         THEN ErrorResponse(304, "Content matches on If-None-Match")
         ELSE IF IfMatchFails(ETagEnc(then), HeaderGet(r.header, "If-Match"))
         THEN ErrorResponse(412, "If-Match failed: ETag did not match")
         ELSE LastModCheck(r, HeaderSet(EmptyHeader, "E-Tag", ETagEnc(then)),
                           then_header, now_header)
    ELSE LastModCheck(r, EmptyHeader, then_header, now_header)

\* the E-Tag part of handle and what follows it
ETagCheck(r, then, then_header, now_header) ==
    IF PathHas(r.path, "etag")
    THEN IF IfMatchFails(ETagEnc(then), HeaderGet(r.header, "If-Match"))
         THEN ErrorResponse(412, "If-Match failed: ETag did not match")
         ELSE IF IfNoneMatchHits(ETagEnc(then), HeaderGet(r.header, "If-None-Match"))
         THEN ErrorResponse(304, "Content matches on If-None-Match")
         ELSE LastModCheck(r, HeaderSet(EmptyHeader, "E-Tag", ETagEnc(then)),
                           then_header, now_header)
    ELSE LastModCheck(r, EmptyHeader, then_header, now_header)

\* handle without its test of the request method
handle_AnyMethod(r, now) ==
    ETagCheck(r, Then(r.path, now),
              FormatRFC1123Z(Then(r.path, now)), FormatRFC1123Z(now))

\* handle(w, r), served at the instant now
handle(r, now) ==
    IF r.method # "GET"
    THEN ErrorResponse(405, "Only GET requests supported")
    ELSE ETagCheck(r, Then(r.path, now),
                   FormatRFC1123Z(Then(r.path, now)), FormatRFC1123Z(now))

-----------------------------------------------------------------------------
(* The harness: DoValidationTest, its validators and updaters.             *)

\* the values of vclock, bw and sib while the content date, the ByteWriter
\* or a parallel test is not what is being looked at
NoSibling == [pc |-> "none"]
NoVClock == [g |-> 0, t1 |-> 0, t2 |-> 0, v1 |-> UTC(0), v2 |-> UTC(0), done |-> FALSE]
NoWriter == [s |-> Buffy, todo |-> <<>>, wrote |-> <<>>, n |-> 0, state |-> "none"]

NoRequest  == [method |-> "", path |-> <<>>, header |-> EmptyHeader]
NoResponse == [code |-> 0, header |-> EmptyHeader, body |-> <<>>]

\* MakeReq(t, url)
MakeReq(url) == [method |-> "GET", path |-> url, header |-> EmptyHeader]

\* strings.TrimSpace on a body: the blank lines at either end go
RECURSIVE TrimLeft(_)
TrimLeft(lines) ==
    IF lines # <<>> /\ Head(lines) = "" THEN TrimLeft(Tail(lines)) ELSE lines

RECURSIVE TrimRight(_)
TrimRight(lines) ==
    IF lines # <<>> /\ lines[Len(lines)] = ""
    THEN TrimRight(SubSeq(lines, 1, Len(lines) - 1))
    ELSE lines

\* GetBody(t, resp): the one Read is taken to deliver the whole body
GetBody(r) == TrimRight(TrimLeft(r.body))

\* strings.Split(body, "\n")[0]
FirstLine(b) == IF b = <<>> THEN "" ELSE Head(b)

\* CompareBodies(t, body1, body2, same, identical): TRUE unless it is fatal
CompareBodies(body1, body2, sameLine, identical) ==
    /\ ~(sameLine /\ FirstLine(body1) # FirstLine(body2))
    /\ ~(~sameLine /\ FirstLine(body1) = FirstLine(body2))
    /\ ~(identical /\ body1 # body2)
    /\ ~(~identical /\ body1 = body2)

\* ETagV.Build and DateModV.Build: <<modded, same>>
Build(v, r, path) ==
    IF v = "ETagV"
    THEN <<[MakeReq(path) EXCEPT
               !.header = HeaderSet(@, "If-None-Match", HeaderGet(r.header, "ETag"))],
           [MakeReq(path) EXCEPT
               !.header = HeaderSet(@, "If-Match", HeaderGet(r.header, "ETag"))]>>
    ELSE <<[MakeReq(path) EXCEPT
               !.header = HeaderSet(@, "If-Modified-Since",
                                    HeaderGet(r.header, "Last-Modified"))],
           [MakeReq(path) EXCEPT
               !.header = HeaderSet(@, "If-Unmodified-Since",
                                    HeaderGet(r.header, "Last-Modified"))]>>

\* the calls of DoValidationTest: the six tests
Scenarios ==
    { [test |-> "DoValidationTest", path |-> <<"static", "etag", "functest">>,
       v |-> "ETagV", u |-> "nil"],
      [test |-> "DoValidationTest", path |-> <<"static", "lastmod", "functest">>,
       v |-> "DateModV", u |-> "nil"],
      [test |-> "DoValidationTest", path |-> <<"periodic", "etag", "functest">>,
       v |-> "ETagV", u |-> "PeriodicU"],
      [test |-> "DoValidationTest", path |-> <<"periodic", "lastmod", "functest">>,
       v |-> "DateModV", u |-> "PeriodicU"],
      [test |-> "DoValidationTest", path |-> <<"clock", "etag", "functest">>,
       v |-> "ETagV", u |-> "ClockU"],
      [test |-> "DoValidationTest", path |-> <<"clock", "lastmod", "functest">>,
       v |-> "DateModV", u |-> "ClockU"],
      [test |-> "TestStaticDoc", path |-> <<"static", "ourtestdoc">>,
       v |-> "nil", u |-> "nil"],
      [test |-> "TestBasicMissingDoc", path |-> <<"gosomewhere", "notexpected">>,
       v |-> "nil", u |-> "nil"] }

\* the calls of the test functions that are looked at: those of the harness,
\* and DoValidationTest without an Updater on a resource that changes
Calls ==
    Scenarios \cup
    { [test |-> "DoValidationTest", path |-> <<"periodic", "lastmod", "functest">>,
       v |-> "DateModV", u |-> "nil"] }

NoScenario == [test |-> "", path |-> <<>>, v |-> "nil", u |-> "nil"]

\* PeriodicU.Update looping one time too few
PeriodicSnoozes_OneShort == granularity_in_seconds - 1

\* the number of snoozes of PeriodicU.Update
PeriodicSnoozes == granularity_in_seconds

\* the request a test (or ClockU.Update) hands to DoReq at pc
ReqAt(p) ==
    CASE p = "baseline" -> MakeReq(scenario.path)
      [] p = "doc1"     -> MakeReq(scenario.path)
      [] p = "doc2"     -> MakeReq(scenario.path)
      [] p = "missing"  -> MakeReq(scenario.path)
      [] p = "same1"    -> same
      [] p = "modded1"  -> modded
      [] p = "put"      -> [MakeReq(scenario.path) EXCEPT !.method = "PUT"]
      [] p = "modded2"  -> modded
      [] p = "same2"    -> same

\* the expected_code it hands to DoReq at pc
ExpectedAt(p) ==
    CASE p = "baseline" -> 200
      [] p = "doc1"     -> 200
      [] p = "doc2"     -> 200
      [] p = "missing"  -> 410
      [] p = "same1"    -> 200
      [] p = "modded1"  -> 304
      [] p = "put"      -> 204
      [] p = "modded2"  -> 200
      [] p = "same2"    -> 412

\* AfterReq leaving out the 'modified' request of the validating phase
AfterReq_SkipModded(p) ==
    CASE p = "baseline" -> "build"
      [] p = "doc1"     -> "docsnooze"
      [] p = "doc2"     -> "comparedoc"
      [] p = "missing"  -> "done"
      [] p = "same1"    -> "compare1"
      [] p = "modded1"  -> "compare1"
      [] p = "put"      -> "modded2"
      [] p = "modded2"  -> "same2"
      [] p = "same2"    -> "compare2"

\* where the test goes on when DoReq returns
AfterReq(p) ==
    CASE p = "baseline" -> "build"
      [] p = "doc1"     -> "docsnooze"
      [] p = "doc2"     -> "comparedoc"
      [] p = "missing"  -> "done"
      [] p = "same1"    -> "modded1"
      [] p = "modded1"  -> "compare1"
      [] p = "put"      -> "modded2"
      [] p = "modded2"  -> "same2"
      [] p = "same2"    -> "compare2"

ReqSteps == {"baseline", "same1", "modded1", "put", "modded2", "same2",
             "doc1", "doc2", "missing"}

\* the first statement of a test function
FirstStep(test) ==
    CASE test = "DoValidationTest"    -> "baseline"
      [] test = "TestStaticDoc"       -> "doc1"
      [] test = "TestBasicMissingDoc" -> "missing"

-----------------------------------------------------------------------------
(* Actions.                                                                *)

\* a second of wall-clock time passes before the scenario's next request
\* goes out (the time a sleeping scenario spends is snooze's; Build and
\* CompareBodies do no I/O, so time passing around them is time passing
\* before the request that follows)
Tick ==
    /\ pc \in ReqSteps
    /\ clock < MaxClock
    /\ clock' = clock + 1
    /\ UNCHANGED <<request, response, servedAt, scenario, pc, resp, body,
                   modded, same, sresp, mresp, i, log>>
    /\ UNCHANGED <<vclock, bw, sib>>

\* DoReq ending the whole test process, not the one test, on an unexpected
\* status
DoReq_FatalExit ==
    /\ pc \in ReqSteps
    /\ LET r == handle(ReqAt(pc), UTC(clock))
       IN  /\ request' = ReqAt(pc)
           /\ response' = r
           /\ servedAt' = clock
           /\ log' = Append(log, [what |-> pc, at |-> clock, code |-> r.code,
                                   tag |-> HeaderGet(r.header, "E-Tag"),
                                   lastmod |-> HeaderGet(r.header, "Last-Modified"),
                                   first |-> FirstLine(GetBody(r))])
           /\ pc' = IF r.code # ExpectedAt(pc) THEN "failed" ELSE AfterReq(pc)
           /\ resp' = IF pc \in {"baseline", "doc1"} /\ r.code = 200 THEN r ELSE resp
           /\ body' = IF pc \in {"baseline", "doc1"} /\ r.code = 200
                      THEN GetBody(r) ELSE body
           /\ sresp' = IF pc \in {"same1", "doc2"} /\ r.code = 200 THEN r ELSE sresp
           /\ mresp' = IF pc = "modded2" /\ r.code = 200 THEN r ELSE mresp
    /\ UNCHANGED <<clock, scenario, modded, same, i>>
    /\ sib' = IF sib # NoSibling
                   /\ handle(ReqAt(pc), UTC(clock)).code # ExpectedAt(pc)
              THEN [sib EXCEPT !.pc = "failed"]
              ELSE sib
    /\ UNCHANGED <<vclock, bw>>

\* DoReq(t, req, expected_code): one round trip, fatal on another status
DoReq ==
    /\ pc \in ReqSteps
    /\ LET r == handle(ReqAt(pc), UTC(clock))
       IN  /\ request' = ReqAt(pc)
           /\ response' = r
           /\ servedAt' = clock
           /\ log' = Append(log, [what |-> pc, at |-> clock, code |-> r.code,
                                   tag |-> HeaderGet(r.header, "E-Tag"),
                                   lastmod |-> HeaderGet(r.header, "Last-Modified"),
                                   first |-> FirstLine(GetBody(r))])
           /\ pc' = IF r.code # ExpectedAt(pc) THEN "failed" ELSE AfterReq(pc)
           /\ resp' = IF pc \in {"baseline", "doc1"} /\ r.code = 200 THEN r ELSE resp
           /\ body' = IF pc \in {"baseline", "doc1"} /\ r.code = 200
                      THEN GetBody(r) ELSE body
           /\ sresp' = IF pc \in {"same1", "doc2"} /\ r.code = 200 THEN r ELSE sresp
           /\ mresp' = IF pc = "modded2" /\ r.code = 200 THEN r ELSE mresp
    /\ UNCHANGED <<clock, scenario, modded, same, i>>
    /\ UNCHANGED <<vclock, bw, sib>>

\* modded, same := v.Build(t, resp)
BuildStep ==
    /\ pc = "build"
    /\ modded' = Build(scenario.v, resp, scenario.path)[1]
    /\ same' = Build(scenario.v, resp, scenario.path)[2]
    /\ pc' = "same1"
    /\ UNCHANGED <<clock, request, response, servedAt, scenario, resp, body,
                   sresp, mresp, i, log>>
    /\ UNCHANGED <<vclock, bw, sib>>

\* Compare without the "if (u == nil) {return;}" of DoValidationTest
Compare_NoNilCheck ==
    /\ pc \in {"compare1", "compare2", "comparedoc"}
    /\ pc' = CASE pc = "compare1" ->
                   IF ~CompareBodies(body, GetBody(sresp), TRUE, TRUE) THEN "failed"
                   ELSE "update"
               [] pc = "compare2" ->
                   IF ~CompareBodies(body, GetBody(mresp), FALSE, FALSE) THEN "failed"
                   ELSE "done"
               [] pc = "comparedoc" ->
                   IF ~CompareBodies(body, GetBody(sresp), TRUE, FALSE) THEN "failed"
                   ELSE "done"
    /\ UNCHANGED <<clock, request, response, servedAt, scenario, resp, body,
                   modded, same, sresp, mresp, i, log>>
    /\ UNCHANGED <<vclock, bw, sib>>

\* the two CompareBodies calls of DoValidationTest, with "if (u == nil)
\* {return;}", and the CompareBodies call of TestStaticDoc
Compare ==
    /\ pc \in {"compare1", "compare2", "comparedoc"}
    /\ pc' = CASE pc = "compare1" ->
                   IF ~CompareBodies(body, GetBody(sresp), TRUE, TRUE) THEN "failed"
                   ELSE IF scenario.u = "nil" THEN "done" ELSE "update"
               [] pc = "compare2" ->
                   IF ~CompareBodies(body, GetBody(mresp), FALSE, FALSE) THEN "failed"
                   ELSE "done"
               [] pc = "comparedoc" ->
                   IF ~CompareBodies(body, GetBody(sresp), TRUE, FALSE) THEN "failed"
                   ELSE "done"
    /\ UNCHANGED <<clock, request, response, servedAt, scenario, resp, body,
                   modded, same, sresp, mresp, i, log>>
    /\ UNCHANGED <<vclock, bw, sib>>

\* u.Update(t, req) is entered
Update ==
    /\ pc = "update"
    /\ pc' = "snooze"
    /\ i' = 0
    /\ log' = Append(log, [what |-> "update", at |-> clock, code |-> 0,
                            tag |-> "", lastmod |-> "", first |-> ""])
    /\ UNCHANGED <<clock, request, response, servedAt, scenario, resp, body,
                   modded, same, sresp, mresp>>
    /\ UNCHANGED <<vclock, bw, sib>>

\* snooze(): time.Sleep(time.Second) returns a second later, or up to
\* MaxOversleep seconds after that; ClockU goes on to its PUT, PeriodicU to
\* its next snooze or out of the loop
snooze ==
    /\ pc \in {"snooze", "docsnooze"}
    /\ \E d \in 1..(1 + MaxOversleep) :
          /\ clock + d <= MaxClock
          /\ clock' = clock + d
    /\ IF pc = "docsnooze"
       THEN /\ pc' = "doc2"
            /\ UNCHANGED i
       ELSE IF scenario.u = "ClockU"
       THEN /\ pc' = "put"
            /\ UNCHANGED i
       ELSE /\ i' = i + 1
            /\ pc' = IF i + 1 < PeriodicSnoozes THEN "snooze" ELSE "modded2"
    /\ UNCHANGED <<request, response, servedAt, scenario, resp, body,
                   modded, same, sresp, mresp, log>>
    /\ UNCHANGED <<vclock, bw, sib>>

Init ==
    /\ clock = ClockStart
    /\ request = NoRequest
    /\ response = NoResponse
    /\ servedAt = ClockStart
    /\ scenario \in Calls
    /\ pc = FirstStep(scenario.test)
    /\ resp = NoResponse
    /\ body = <<>>
    /\ modded = NoRequest
    /\ same = NoRequest
    /\ sresp = NoResponse
    /\ mresp = NoResponse
    /\ i = 0
    /\ log = <<>>
    /\ vclock = NoVClock
    /\ bw = NoWriter
    /\ sib = NoSibling

Next == Tick \/ DoReq \/ BuildStep \/ Compare \/ Update \/ snooze

\* one scenario of the harness against the server, on a running clock
Spec == Init /\ [][Next]_vars

-----------------------------------------------------------------------------
(* The server alone: any one request of a small alphabet, at any instant.  *)

PreconditionKeys ==
    {"If-Match", "If-None-Match", "If-Unmodified-Since", "If-Modified-Since"}

\* content dates a client may hold a validator of: the first two buckets of
\* the run and the date of a /static/ path
ProbeThens ==
    {Then(<<>>, UTC(c)) : c \in {ClockStart, ClockStart + granularity_in_seconds}}
        \cup {Then(<<"static">>, UTC(ClockStart))}

\* the values a client may send under a precondition key
ProbeValues(k) ==
    IF k \in {"If-Match", "If-None-Match"}
    THEN {"*"} \cup {ETagEnc(t) : t \in ProbeThens}
    ELSE {FormatRFC1123Z(t) : t \in ProbeThens}

ProbeHeaders ==
    UNION { {h \in [K -> UNION {ProbeValues(k) : k \in K}] :
                \A k \in K : h[k] \in ProbeValues(k)} : K \in SUBSET PreconditionKeys }

ProbePaths ==
    { <<"etag", "x">>, <<"lastmod", "x">>, <<"etag", "lastmod", "x">>,
      <<"static", "etag", "lastmod", "x">>, <<"headers", "etag", "x">>,
      <<"plain", "x">>, <<>> }

ProbeRequests ==
    [method : {"GET", "PUT"}, path : ProbePaths, header : ProbeHeaders]

\* a request has arrived at some instant and is not yet served
ServerInit ==
    /\ clock \in ClockStart..MaxClock
    /\ request \in ProbeRequests
    /\ response = NoResponse
    /\ servedAt = clock
    /\ scenario = NoScenario
    /\ pc = "idle"
    /\ resp = NoResponse
    /\ body = <<>>
    /\ modded = NoRequest
    /\ same = NoRequest
    /\ sresp = NoResponse
    /\ mresp = NoResponse
    /\ i = 0
    /\ log = <<>>
    /\ vclock = NoVClock
    /\ bw = NoWriter
    /\ sib = NoSibling

\* http.HandleFunc("/", handle): the server serves the request
Serve ==
    /\ pc = "idle"
    /\ response = NoResponse
    /\ response' = handle(request, UTC(clock))
    /\ servedAt' = clock
    /\ UNCHANGED <<clock, request, scenario, pc, resp, body, modded, same,
                   sresp, mresp, i, log>>
    /\ UNCHANGED <<vclock, bw, sib>>

ServerSpec == ServerInit /\ [][Serve]_vars

-----------------------------------------------------------------------------
(* Properties of the server alone (ServerSpec).                            *)

\* the request has been served by a GET-able resource
ServedGet == pc = "idle" /\ response # NoResponse /\ request.method = "GET"

\* the content date and its two renderings at the instant of service
ServedThen == Then(request.path, UTC(servedAt))
ServedTag  == ETagEnc(ServedThen)
ServedDate == FormatRFC1123Z(ServedThen)

\* the status the same resource gives, at the same instant, to the request
\* stripped of every header but k
Solo(k) ==
    handle([request EXCEPT
               !.header = [x \in DOMAIN request.header \cap {k} |-> request.header[x]]],
           UTC(servedAt)).code

\* C1: with both channels enabled, whatever headers a GET carries, its status
\* is that of the first header, in the order If-Match, If-None-Match,
\* If-Unmodified-Since, If-Modified-Since, that on its own draws a status
\* other than 200 from the resource (412, 304, 412, 304 respectively), and
\* 200 when none does
C1_FirstRuleWins ==
    (ServedGet /\ PathHas(request.path, "etag") /\ PathHas(request.path, "lastmod"))
    => /\ Solo("If-Match") \in {200, 412}
       /\ Solo("If-None-Match") \in {200, 304}
       /\ Solo("If-Unmodified-Since") \in {200, 412}
       /\ Solo("If-Modified-Since") \in {200, 304}
       /\ response.code =
            IF Solo("If-Match") # 200 THEN 412
            ELSE IF Solo("If-None-Match") # 200 THEN 304
            ELSE IF Solo("If-Unmodified-Since") # 200 THEN 412
            ELSE IF Solo("If-Modified-Since") # 200 THEN 304
            ELSE 200

\* contradictory headers: If-None-Match alone says 304, If-Unmodified-Since
\* alone says 412, and the E-Tag channel has won
C1_Witness ==
    /\ ServedGet
    /\ PathHas(request.path, "etag") /\ PathHas(request.path, "lastmod")
    /\ Solo("If-Match") = 200
    /\ Solo("If-None-Match") = 304
    /\ Solo("If-Unmodified-Since") = 412
    /\ response.code = 304

C5_Wildcard ==
    (ServedGet /\ PathHas(request.path, "etag"))
    => /\ HeaderGet(request.header, "If-Match") = "*" => response.code # 412
       /\ ( /\ HeaderGet(request.header, "If-None-Match") = "*"
            /\ HeaderGet(request.header, "If-Match") \in {"", "*"} )
          => response.code = 304

-----------------------------------------------------------------------------
(* Properties of a scenario run against the server (Spec).                 *)

\* the content date the server computes for the scenario's path at clock c
Version(c) == Then(scenario.path, UTC(c))

\* the k-th thing the scenario did was request w, served while the content
\* date was still the one the Baseline request saw
UnchangedAt(k, w) ==
    /\ k <= Len(log)
    /\ log[k].what = w
    /\ Version(log[k].at) = Version(log[1].at)

\* C3: the tag read from the ETag header of the baseline 200 response,
\* replayed as If-None-Match while the version is unchanged, is answered 304
C3_RoundTrip ==
    (scenario.v = "ETagV" /\ UnchangedAt(3, "modded1")) => log[3].code = 304

\* C6: for the Last-Modified validator, while the version is that of
\* Baseline, "same" is answered 200 and "modified" is answered 304
C6_DateValidating ==
    scenario.v = "DateModV"
    => /\ UnchangedAt(2, "same1") => log[2].code = 200
       /\ UnchangedAt(3, "modded1") => log[3].code = 304

C8_Revalidating ==
    \A k \in 1..Len(log) :
        Before(Version(log[1].at), Version(log[k].at))
        => /\ log[k].what = "modded2" => log[k].code = 200
           /\ log[k].what = "same2" => log[k].code = 412

\* C9: the PUT of the explicit updater is answered 204
C9_PutAccepted ==
    \A k \in 1..Len(log) : log[k].what = "put" => log[k].code = 204

\* C10: when PeriodicU.Update returns, it has issued no request, and the
\* version the server computes is strictly greater than the version at the
\* moment the update began, hence than the version captured at Baseline
C10_PassiveAdvance ==
    (scenario.u = "PeriodicU" /\ pc = "modded2")
    => /\ log[Len(log)].what = "update"
       /\ Before(Version(log[Len(log)].at), Version(clock))
       /\ Before(Version(log[1].at), Version(clock))

\* the tight case: the update began on the first second of a bucket and its
\* snoozes took granularity_in_seconds seconds, not one more
C10_Witness ==
    /\ scenario.u = "PeriodicU" /\ pc = "modded2"
    /\ log[Len(log)].what = "update"
    /\ log[Len(log)].at % granularity_in_seconds = 0
    /\ clock = log[Len(log)].at + granularity_in_seconds
    /\ Before(Version(log[1].at), Version(clock))

-----------------------------------------------------------------------------
(* The content date alone: any granularity, any two instants (ClockSpec).  *)

ClockInit ==
    /\ vclock \in [g : 1..MaxGranularity,
                   t1 : ClockStart..MaxClock, t2 : ClockStart..MaxClock,
                   v1 : {UTC(0)}, v2 : {UTC(0)}, done : {FALSE}]
    /\ bw = NoWriter
    /\ sib = NoSibling
    /\ clock = ClockStart
    /\ request = NoRequest
    /\ response = NoResponse
    /\ servedAt = ClockStart
    /\ scenario = NoScenario
    /\ pc = "idle"
    /\ resp = NoResponse
    /\ body = <<>>
    /\ modded = NoRequest
    /\ same = NoRequest
    /\ sresp = NoResponse
    /\ mresp = NoResponse
    /\ i = 0
    /\ log = <<>>

\* the content date of a non-static path is computed at both instants
ComputeThen ==
    /\ ~vclock.done
    /\ vclock' = [vclock EXCEPT !.v1 = Bucket(UTC(vclock.t1), vclock.g),
                                !.v2 = Bucket(UTC(vclock.t2), vclock.g),
                                !.done = TRUE]
    /\ UNCHANGED <<clock, request, response, servedAt, scenario, pc, resp, body,
                   modded, same, sresp, mresp, i, log, bw, sib>>

ClockSpec == ClockInit /\ [][ComputeThen]_vars

\* C11 as claimed: for every granularity G, two instants with the same
\* quotient by G have the same content date
C11_SameQuotientSameVersion ==
    (vclock.done /\ Unix(vclock.t1) \div vclock.g = Unix(vclock.t2) \div vclock.g)
    => vclock.v1 = vclock.v2

\* C11 as amended: for every granularity G that divides 60 (the program's is
\* 15), two instants with the same quotient by G have the same content date
C11_StableWhenDividesMinute ==
    ( /\ vclock.done
      /\ 60 % vclock.g = 0
      /\ Unix(vclock.t1) \div vclock.g = Unix(vclock.t2) \div vclock.g )
    => vclock.v1 = vclock.v2

\* the program's granularity, two different instants of one bucket
C11_Witness ==
    /\ vclock.done
    /\ vclock.g = granularity_in_seconds
    /\ vclock.t1 # vclock.t2
    /\ Unix(vclock.t1) \div vclock.g = Unix(vclock.t2) \div vclock.g
    /\ vclock.v1 = vclock.v2
    /\ vclock.v1.second = Truncate(vclock.t1 % 60, vclock.g)

-----------------------------------------------------------------------------
(* The content date over a scenario's requests (Spec).                     *)

\* the positions of the log that are 200 responses
Served200 == {k \in 1..Len(log) : log[k].what \in ReqSteps /\ log[k].code = 200}

\* C12: over the requests a scenario sends to its path, at clock instants
\* that never decrease, the content date never decreases, and each 200
\* response renders that content date: as the first line of its body, as its
\* tag on an etag path and as its Last-Modified on a lastmod path
C12_VersionMonotone ==
    /\ \A j, k \in 1..Len(log) :
          j < k => /\ log[j].at <= log[k].at
                   /\ ~Before(Version(log[k].at), Version(log[j].at))
    /\ \A k \in Served200 :
          /\ log[k].first = "Content date: " \o FormatRFC1123Z(Version(log[k].at))
          /\ PathHas(scenario.path, "etag")
                => log[k].tag = ETagEnc(Version(log[k].at))
          /\ PathHas(scenario.path, "lastmod")
                => log[k].lastmod = FormatRFC1123Z(Version(log[k].at))

\* two 200 responses of one scenario, the later one in the next minute and
\* with a later content date in the body and in the path's validator header
C12_Witness ==
    \E j, k \in Served200 :
        /\ j < k
        /\ Version(log[j].at).minute < Version(log[k].at).minute
        /\ Before(Version(log[j].at), Version(log[k].at))
        /\ log[j].first # log[k].first
        /\ (log[j].tag # log[k].tag \/ log[j].lastmod # log[k].lastmod)

-----------------------------------------------------------------------------
(* TestStaticDoc (Spec).                                                   *)

\* C13: the two unconditional GETs of a static resource, the second sent a
\* second or more after the first, are both answered 200, with bodies whose
\* first lines are equal and which differ as wholes; the test does not fail
C13_StaticDoc ==
    (scenario.test = "TestStaticDoc" /\ Len(log) >= 2)
    => /\ log[1].what = "doc1" /\ log[2].what = "doc2"
       /\ log[2].at >= log[1].at + 1
       /\ log[1].code = 200 /\ log[2].code = 200
       /\ log[1].first = log[2].first
       /\ body # GetBody(sresp)
       /\ pc # "failed"

\* TestStaticDoc returned, its two requests in different content-date
\* buckets of the clock
C13_Witness ==
    /\ scenario.test = "TestStaticDoc" /\ pc = "done"
    /\ Len(log) = 2
    /\ log[1].at \div granularity_in_seconds # log[2].at \div granularity_in_seconds
    /\ FirstLine(body) = FirstLine(GetBody(sresp))
    /\ body[2] # GetBody(sresp)[2]

-----------------------------------------------------------------------------
(* Requests the server turns away (ServerSpec).                            *)

-----------------------------------------------------------------------------
(* TestBasicMissingDoc (Spec).                                             *)

\* C15: the GET of a path that names no recognised resource, as
\* TestBasicMissingDoc sends it, is answered 410
C15_MissingGone ==
    (scenario.test = "TestBasicMissingDoc" /\ Len(log) >= 1)
    => (log[1].what = "missing" /\ log[1].code = 410)

-----------------------------------------------------------------------------
(* The validator headers of a 200 response (ServerSpec).                   *)

\* C16: a 200 response carries the quoted current tag in its ETag header
\* when the path enables etag, and the current content date in its
\* Last-Modified header when the path enables lastmod
C16_ValidatorHeaders ==
    (ServedGet /\ response.code = 200)
    => /\ PathHas(request.path, "etag")
             => HeaderGet(response.header, "ETag") = ServedTag
       /\ PathHas(request.path, "lastmod")
             => HeaderGet(response.header, "Last-Modified") = ServedDate

-----------------------------------------------------------------------------
(* The order of a scenario's requests (Spec).                              *)

\* what DoValidationTest does in the order of its statements: the requests
\* baseline, same, modified, the updater (with ClockU's PUT), modified, same
StepOrder ==
    <<"baseline", "same1", "modded1">>
        \o (IF scenario.u = "nil" THEN <<>> ELSE <<"update">>)
        \o (IF scenario.u = "ClockU" THEN <<"put">> ELSE <<>>)
        \o (IF scenario.u = "nil" THEN <<>> ELSE <<"modded2", "same2">>)

\* the k-th thing the scenario did went as DoValidationTest demands
AsExpected(k) ==
    log[k].what \in ReqSteps => log[k].code = ExpectedAt(log[k].what)

\* what the scenario did so far is the beginning of StepOrder, everything
\* before its last step went as demanded, and it is past the first body
\* comparison only if that comparison passed
C17_InOrder ==
    scenario.test = "DoValidationTest"
    => /\ Len(log) <= Len(StepOrder)
       /\ \A k \in 1..Len(log) :
             /\ log[k].what = StepOrder[k]
             /\ k < Len(log) => (AsExpected(k) /\ log[k].at <= log[k + 1].at)
       /\ (Len(log) > 0 /\ ~AsExpected(Len(log))) => pc = "failed"
       /\ (pc \in {"update", "snooze", "put", "modded2", "same2"})
             => CompareBodies(body, GetBody(sresp), TRUE, TRUE)

\* a failed scenario stays failed and sends nothing
C17_FailureIsFinal ==
    pc = "failed" => (pc' = "failed" /\ log' = log /\ request' = request)

\* C17: a scenario sends its requests strictly in the order baseline, same,
\* modified, updater action, modified, same, one after the other; it goes on
\* only while every status was the expected one and every body comparison
\* passed, and once it has failed it sends nothing more
C17_StrictOrder == []C17_InOrder /\ [][C17_FailureIsFinal]_vars

\* a scenario that got as far as the step after its updater began, and
\* failed there on an unexpected status
C17_Witness ==
    /\ scenario.test = "DoValidationTest"
    /\ pc = "failed"
    /\ Len(log) = 5
    /\ log[4].what = "update"
    /\ ~AsExpected(5)

-----------------------------------------------------------------------------
(* DoValidationTest without an Updater (Spec).                             *)

-----------------------------------------------------------------------------
(* Two test functions in parallel against the one server (PairSpec).       *)

\* everything a running test function holds: its arguments, its position,
\* its local variables, its last round trip and what it did so far
Running ==
    [scenario |-> scenario, pc |-> pc, resp |-> resp, body |-> body,
     modded |-> modded, same |-> same, sresp |-> sresp, mresp |-> mresp,
     i |-> i, log |-> log,
     request |-> request, response |-> response, servedAt |-> servedAt]

\* a test function about to execute its first statement (t.Parallel())
Started(call, at) ==
    [scenario |-> call, pc |-> FirstStep(call.test), resp |-> NoResponse,
     body |-> <<>>, modded |-> NoRequest, same |-> NoRequest,
     sresp |-> NoResponse, mresp |-> NoResponse, i |-> 0, log |-> <<>>,
     request |-> NoRequest, response |-> NoResponse, servedAt |-> at]

\* the scheduler lets the other test function run: the two change places
Switch ==
    /\ sib # NoSibling
    /\ sib' = Running
    /\ scenario' = sib.scenario
    /\ pc' = sib.pc
    /\ resp' = sib.resp
    /\ body' = sib.body
    /\ modded' = sib.modded
    /\ same' = sib.same
    /\ sresp' = sib.sresp
    /\ mresp' = sib.mresp
    /\ i' = sib.i
    /\ log' = sib.log
    /\ request' = sib.request
    /\ response' = sib.response
    /\ servedAt' = sib.servedAt
    /\ UNCHANGED <<clock, vclock, bw>>

PairInit ==
    /\ clock = MaxClock - PairSpan
    /\ request = NoRequest
    /\ response = NoResponse
    /\ servedAt = clock
    /\ scenario \in Calls
    /\ pc = FirstStep(scenario.test)
    /\ resp = NoResponse
    /\ body = <<>>
    /\ modded = NoRequest
    /\ same = NoRequest
    /\ sresp = NoResponse
    /\ mresp = NoResponse
    /\ i = 0
    /\ log = <<>>
    /\ vclock = NoVClock
    /\ bw = NoWriter
    /\ sib \in {Started(c, clock) : c \in {x \in Calls : x.path # scenario.path}}

PairNext == Next \/ Switch

PairSpec == PairInit /\ [][PairNext]_vars

\* the boolean flags handle reads off a path
Flags(path) ==
    [print_headers |-> PathHas(path, "headers"), use_etags |-> PathHas(path, "etag"),
     use_lastmod |-> PathHas(path, "lastmod"), be_static |-> PathHas(path, "static")]

\* the paths of the test functions
TestPaths == {c.path : c \in Calls}

\* the response just received is the one any request of the paths in ps with
\* the same method, flags and headers gets at the same instant
SameForSameFlags(ps) ==
    response # NoResponse
    => \A p \in ps :
          Flags(p) = Flags(request.path)
          => handle([request EXCEPT !.path = p], UTC(servedAt)) = response

\* every answer the running test function got is the answer its request gets
\* at that instant, whatever the other test function did in between
AnswersAreTheServersAlone ==
    \A k \in 1..Len(log) :
        log[k].what \in ReqSteps
        => LET r == handle(ReqAt(log[k].what), UTC(log[k].at))
           IN  /\ log[k].code = r.code
               /\ log[k].tag = HeaderGet(r.header, "E-Tag")
               /\ log[k].lastmod = HeaderGet(r.header, "Last-Modified")
               /\ log[k].first = FirstLine(GetBody(r))

\* whatever a test function does, failing included, leaves the other one as
\* it was: the sibling's state only ever changes by being scheduled
SiblingUntouched ==
    sib' # sib => (sib' = Running /\ Running' = sib)

-----------------------------------------------------------------------------
(* The ByteWriter while handle renders a 200 response (WriterSpec).        *)

\* a string of n bytes
RECURSIVE Pad(_)
Pad(n) ==
    IF n = 0 THEN ""
    ELSE IF n % 2 = 0 THEN Pad(n \div 2) \o Pad(n \div 2)
    ELSE "x" \o Pad(n - 1)

WriterValues == {Pad(1), Pad(MaxValueLen - 1), Pad(MaxValueLen)}

WriterHeaders == UNION {[K -> WriterValues] : K \in SUBSET PreconditionKeys}

WriterPaths == {<<"headers", "x">>, <<"headers", "etag", "lastmod", "x">>, <<"plain", "x">>}

\* the GET requests that get as far as b := Buffy()
WriterRequests ==
    {r \in [method : {"GET"}, path : WriterPaths, header : WriterHeaders] :
        \A c \in {ClockStart, MaxClock} : handle(r, UTC(c)).code \in {0, 200}}

\* the headers map of handle when no precondition has answered
CustomHeaders(r, then) ==
    LET h == IF PathHas(r.path, "etag")
             THEN HeaderSet(EmptyHeader, "E-Tag", ETagEnc(then)) ELSE EmptyHeader
    IN  IF PathHas(r.path, "lastmod")
        THEN HeaderSet(h, "Last-Modified", FormatRFC1123Z(then)) ELSE h

WriterInit ==
    /\ clock \in {ClockStart, MaxClock}
    /\ request \in WriterRequests
    /\ response = NoResponse
    /\ servedAt = clock
    /\ bw = [s |-> Buffy,
             todo |-> Writes(request, FormatRFC1123Z(Then(request.path, UTC(clock))),
                             FormatRFC1123Z(UTC(clock))),
             wrote |-> <<>>, n |-> 0, state |-> "rendering"]
    /\ scenario = NoScenario
    /\ pc = "idle"
    /\ resp = NoResponse
    /\ body = <<>>
    /\ modded = NoRequest
    /\ same = NoRequest
    /\ sresp = NoResponse
    /\ mresp = NoResponse
    /\ i = 0
    /\ log = <<>>
    /\ vclock = NoVClock
    /\ sib = NoSibling

\* one fmt.Fprintln(b, ...) or fmt.Fprintf(b, ...) of handle: one b.Write
Fprint ==
    /\ bw.state = "rendering"
    /\ bw.todo # <<>>
    /\ LET w == Write(bw.s, Head(bw.todo))
       IN  /\ bw' = [s |-> w.s, todo |-> Tail(bw.todo),
                     wrote |-> IF w.panicked THEN bw.wrote
                               ELSE Append(bw.wrote, Head(bw.todo)),
                     n |-> w.n,
                     state |-> IF w.panicked THEN "panicked" ELSE "rendering"]
           /\ response' = IF w.panicked THEN ConnectionClosed ELSE response
    /\ UNCHANGED <<clock, request, servedAt, scenario, pc, resp, body,
                   modded, same, sresp, mresp, i, log, vclock, sib>>

\* lines 177-186 of handle, every write done
Respond ==
    /\ bw.state = "rendering"
    /\ bw.todo = <<>>
    /\ bw' = [bw EXCEPT !.state = "responded"]
    /\ response' = Respond200(CustomHeaders(request, Then(request.path, UTC(clock))),
                              AsString(bw.s))
    /\ UNCHANGED <<clock, request, servedAt, scenario, pc, resp, body,
                   modded, same, sresp, mresp, i, log, vclock, sib>>

WriterNext == Fprint \/ Respond

WriterSpec == WriterInit /\ [][WriterNext]_vars

\* the byte slices written so far, one after the other
RECURSIVE Flatten(_)
Flatten(chunks) ==
    IF chunks = <<>> THEN <<>> ELSE Head(chunks) \o Flatten(Tail(chunks))

\* the step-by-step rendering and handle as one function agree
WriterAgreesWithHandle ==
    bw.state \in {"panicked", "responded"} => response = handle(request, UTC(clock))

\* C20: while a response is rendered, echoed request headers included, every
\* Write call returns, with n = len(bs); pos stays between 0 and 4096;
\* AsString is the concatenation of everything written; and the
\* Content-Length sent is the length of the body sent
C20_WriterWithinBuffer ==
    bw.state # "none"
    => /\ bw.state # "panicked"
       /\ 0 <= bw.s.pos /\ bw.s.pos <= BufSize
       /\ bw.wrote # <<>> => bw.n = ContentLen(bw.wrote[Len(bw.wrote)])
       /\ AsString(bw.s) = Flatten(bw.wrote)
       /\ bw.s.pos = ContentLen(AsString(bw.s))
       /\ bw.state = "responded"
             => /\ response.body = Flatten(bw.wrote)
                /\ HeaderGet(response.header, "Content-Length")
                      = Itoa(ContentLen(response.body))

====
